---- MODULE Spec2Model ----
(***************************************************************************)
(* Model of the Apify -> Supabase -> OpenAI application: the `records`     *)
(* table, the route handlers that write it (ingest, batch analyze,         *)
(* single-record analyze, delete) and the completion-API retry loop.       *)
(*                                                                         *)
(* Conventions.  A JavaScript string whose characters matter (content,     *)
(* header values, error messages) is a sequence of tokens: one token per   *)
(* digit or blank, and one opaque token per digit-free chunk of text.  A   *)
(* string that is only compared for equality (external_id, source) is a    *)
(* TLA+ string, with "" the falsy/absent value.  SQL NULL in analyzed_at   *)
(* is 0; timestamps are values of a logical clock that starts at 1.        *)
(***************************************************************************)
EXTENDS Integers, Sequences, FiniteSets, TLC

VARIABLES
    records,    \* the rows of the `records` table
    now,        \* logical clock: NOW() / new Date()
    nextId,     \* rows created so far (gen_random_uuid() never repeats)
    genCount,   \* values drawn so far from Date.now() + Math.random()
    pc,         \* per request slot: where its handler is
    nitems,     \* per slot: items.length of POST /api/ingest
    rows,       \* per slot: storeInSupabase's rows, then its newRows
    batch,      \* per slot: the records an analyze handler read
    idx,        \* per slot: loop index i into batch (1-based)
    analysis,   \* per slot: the value analyzeContent returned
    answer,     \* per slot: the sentiment the completion API answered
    results,    \* per slot: results.length of POST /api/analyze
    errors,     \* per slot: errors.length of POST /api/analyze
    resp,       \* per slot: the HTTP response of the handler
    route,      \* per slot: the route being served
    input,      \* the item set of the scraping run that is ingested twice
    phase,      \* 0: not yet ingested, 1: ingested once, 2: ingested twice
    snap,       \* the table when the second ingestion of `input` began
    oa,         \* one analyzeContent call observed request by request
    wf,         \* one executeApifyWorkflow call observed poll by poll
    limitParam, \* per slot: the limit parameter of POST /api/analyze
    request     \* per slot: the id and the action of POST /api/records/:id

vars == <<records, now, nextId, genCount, pc, nitems, rows, batch, idx,
          analysis, answer, results, errors, resp, route, input, phase, snap, oa, wf,
          limitParam, request>>

----------------------------------------------------------------------------
(* Bounds of the model. *)

MaxItems == 2
MaxNow == 4
MaxRowId == 2
MaxGen == 2

\* The requests that can be in flight at the same time: two POST /api/ingest
\* and two requests to the analyze routes.
Ingesters == {"i1", "i2"}

Analyzers == {"a1", "a2"}

Slots == Ingesters \cup Analyzers

----------------------------------------------------------------------------
(* Values. *)

NoRows == <<>>

NullAnalysis == [summary |-> "", sentiment |-> "null", keywords |-> "null"]

NoResp == [status |-> 0, ok |-> FALSE, error |-> "", itemsCount |-> 0, storedCount |-> 0,
           selected |-> 0, analyzed |-> 0, failed |-> 0, unanalyzedCount |-> 0]

\* The message of the datastore's error 23505.
DuplicateKey == "duplicate key value violates unique constraint"

\* A response; a failure carries a message.
Resp(status, ok) ==
    [NoResp EXCEPT !.status = status, !.ok = ok, !.error = IF ok THEN "" ELSE "failed"]

\* Apify dataset items: the fields mapApifyItemsToRecords reads.
ItemIds == {"", "a"}
ItemUrls == {"", "a"}
ItemTexts == {<<>>, <<"x">>}

Items == [id : ItemIds, url : ItemUrls, uniqueId : {""}, text : ItemTexts]

RECURSIVE SeqsUpTo(_, _)
SeqsUpTo(S, n) ==
    IF n = 0 THEN {<<>>}
    ELSE LET shorter == SeqsUpTo(S, n - 1)
         IN  shorter \cup {Append(s, x) : s \in {t \in shorter : Len(t) = n - 1}, x \in S}

ItemLists == SeqsUpTo(Items, MaxItems)

\* JavaScript a || b on strings.
Or(a, b) == IF a # "" THEN a ELSE b

Range(s) == {s[i] : i \in DOMAIN s}

----------------------------------------------------------------------------
(* mapApifyItemsToRecords *)

GenId(n) == "g" \o ToString(n)

\* Items for which external_id falls through to Date.now() + Math.random().
NeedsGen(item) == Or(item.id, Or(item.url, item.uniqueId)) = ""

RECURSIVE CountGen(_)
CountGen(its) ==
    IF its = <<>> THEN 0
    ELSE (IF NeedsGen(Head(its)) THEN 1 ELSE 0) + CountGen(Tail(its))

RECURSIVE MapItems(_, _)
MapItems(its, g) ==
    IF its = <<>> THEN <<>>
    ELSE LET item == Head(its)
             gen == NeedsGen(item)
             row == [external_id |-> IF gen THEN GenId(g + 1)
                                     ELSE Or(item.id, Or(item.url, item.uniqueId)),
                     source |-> Or(item.url, "unknown"),
                     content |-> item.text]
         IN  <<row>> \o MapItems(Tail(its), IF gen THEN g + 1 ELSE g)

HasContent(row) == Len(row.content) > 0

mapApifyItemsToRecords(its, g) == SelectSeq(MapItems(its, g), HasContent)

----------------------------------------------------------------------------
(* The datastore: the `records` table of the README's schema. *)

ExternalIds(table) == {r.external_id : r \in table}

\* external_id TEXT UNIQUE NOT NULL: what an INSERT of newRows must respect.
UniqueViolation(table, newRows) ==
    \/ \E i \in DOMAIN newRows : newRows[i].external_id \in ExternalIds(table)
    \/ \E i, j \in DOMAIN newRows : i # j /\ newRows[i].external_id = newRows[j].external_id

\* The rows one INSERT statement creates: fresh ids, one NOW() for all of them.
InsertedRows(newRows, id0, t) ==
    {[id |-> id0 + i, external_id |-> newRows[i].external_id,
      source |-> newRows[i].source, content |-> newRows[i].content,
      analysis |-> NullAnalysis, analyzed_at |-> 0, created_at |-> t] : i \in DOMAIN newRows}

\* Variant: no UNIQUE constraint on external_id.
DbInsertUnconstrained(table, newRows, id0, t) ==
    [error |-> FALSE, message |-> "", table |-> table \cup InsertedRows(newRows, id0, t),
     data |-> InsertedRows(newRows, id0, t)]

\* Variant: INSERT ... ON CONFLICT (external_id) DO UPDATE of the whole row.
DbInsertUpsert(table, newRows, id0, t) ==
    LET new == InsertedRows(newRows, id0, t)
        Old(n) == CHOOSE r \in table : r.external_id = n.external_id
        merged == {IF n.external_id \in ExternalIds(table)
                   THEN [n EXCEPT !.id = Old(n).id, !.created_at = Old(n).created_at]
                   ELSE n : n \in new}
    IN  [error |-> FALSE, message |-> "",
         table |-> {r \in table : r.external_id \notin ExternalIds(new)} \cup merged,
         data |-> merged]

\* Variant: an INSERT that fails on a duplicate keeps the rows before it.
DbInsertPartial(table, newRows, id0, t) ==
    LET ins == InsertedRows(newRows, id0, t)
        kept == {r \in ins : /\ r.external_id \notin ExternalIds(table)
                              /\ \A q \in ins : q.external_id = r.external_id => q.id >= r.id}
    IN  IF UniqueViolation(table, newRows)
        THEN [error |-> TRUE, message |-> DuplicateKey, table |-> table \cup kept, data |-> {}]
        ELSE [error |-> FALSE, message |-> "", table |-> table \cup ins, data |-> ins]

\* supabase .from('records').insert(newRows).select(): one statement, all or
\* nothing; error 23505 when a row breaks the UNIQUE constraint.
DbInsert(table, newRows, id0, t) ==
    IF UniqueViolation(table, newRows)
    THEN [error |-> TRUE, message |-> DuplicateKey, table |-> table, data |-> {}]
    ELSE [error |-> FALSE, message |-> "", table |-> table \cup InsertedRows(newRows, id0, t),
          data |-> InsertedRows(newRows, id0, t)]

\* .select('external_id').in('external_id', externalIds)
ExistingIdSet(table, rs) == {r.external_id : r \in table} \cap {rs[i].external_id : i \in DOMAIN rs}

\* rows.filter((r) => !existingIdSet.has(r.external_id))
NewRows(rs, existing) == SelectSeq(rs, LAMBDA r : r.external_id \notin existing)

----------------------------------------------------------------------------
(* lib/openai.ts: one attempt of analyzeContent's retry loop. *)

DefaultRetries == 3

ValidSentiments == {"positive", "neutral", "negative"}

NaN == -1

DigitChars == <<"0", "1", "2", "3", "4", "5", "6", "7", "8", "9">>

\* String(n) for n >= 0: the decimal digits, one token each.
RECURSIVE Digits(_)
Digits(n) ==
    IF n < 10 THEN <<DigitChars[n + 1]>>
    ELSE Digits(n \div 10) \o <<DigitChars[(n % 10) + 1]>>

IsDigit(c) == \E d \in DOMAIN DigitChars : DigitChars[d] = c

DigitValue(c) == (CHOOSE d \in DOMAIN DigitChars : DigitChars[d] = c) - 1

\* parseInt(s, 10): leading blanks skipped, then the longest run of digits;
\* NaN when there is none.
RECURSIVE ParseDigits(_, _, _)
ParseDigits(s, acc, seen) ==
    IF s # <<>> /\ IsDigit(Head(s))
    THEN ParseDigits(Tail(s), acc * 10 + DigitValue(Head(s)), TRUE)
    ELSE IF seen THEN acc ELSE NaN

RECURSIVE SkipBlanks(_)
SkipBlanks(s) == IF s # <<>> /\ Head(s) = " " THEN SkipBlanks(Tail(s)) ELSE s

ParseInt(s) == ParseDigits(SkipBlanks(s), 0, FALSE)

Times(a, b) == IF a = NaN \/ b = NaN THEN NaN ELSE a * b

RECURSIVE Pow2(_)
Pow2(k) == IF k = 0 THEN 1 ELSE 2 * Pow2(k - 1)

\* hay.includes(needle)
Includes(hay, needle) ==
    \E i \in 1..(Len(hay) - Len(needle) + 1) : SubSeq(hay, i, i + Len(needle) - 1) = needle

Reverse(s) == [i \in 1..Len(s) |-> s[Len(s) + 1 - i]]

\* content.trim()
Trim(s) == Reverse(SkipBlanks(Reverse(SkipBlanks(s))))

\* !content || content.trim().length === 0
ContentIsEmpty(content) == content = <<>> \/ Len(Trim(content)) = 0

\* What one fetch of the completion API can bring back.
NoHeader == [present |-> FALSE, value |-> <<>>]

RetryAfterValues == {<<>>, <<"0">>, <<"1">>, <<"1", "0">>, <<"W", "e", "d">>}

RetryAfters == {NoHeader} \cup {[present |-> TRUE, value |-> v] : v \in RetryAfterValues}

FailStatuses == {429, 500}

FailBodies == {<<>>, <<"4", "2", "9">>}

NoAnswer == [kind |-> "none", summary |-> "", sentiment |-> "", keywords |-> ""]

Answers ==
    {NoAnswer, [NoAnswer EXCEPT !.kind = "notjson"]}
    \cup [kind : {"json"}, summary : {"", "s"},
          sentiment : ValidSentiments \cup {"mixed", ""},
          keywords : {"array", "string"}]

NetworkError ==
    [kind |-> "network", status |-> 0, body |-> <<>>, retryAfter |-> NoHeader,
     answer |-> NoAnswer]

Responses ==
    {NetworkError}
    \cup [kind : {"http"}, status : FailStatuses, body : FailBodies,
          retryAfter : RetryAfters, answer : {NoAnswer}]
    \cup [kind : {"http"}, status : {200}, body : {<<>>},
          retryAfter : {NoHeader}, answer : Answers]

StatusText(status) ==
    CASE status = 429 -> <<"Too Many Requests">>
      [] status = 500 -> <<"Internal Server Error">>
      [] OTHER -> <<"OK">>

\* response.ok
ResponseOk(r) == r.status >= 200 /\ r.status <= 299

\* Variant: the longer of the header's wait and the backoff.
WaitTimeMax(r, att) ==
    IF r.retryAfter.present /\ r.retryAfter.value # <<>>
       /\ ParseInt(r.retryAfter.value) # NaN
       /\ ParseInt(r.retryAfter.value) > Pow2(att)
    THEN Times(ParseInt(r.retryAfter.value), 1000)
    ELSE Pow2(att) * 1000

\* Variant: a backoff that grows by one second per attempt.
WaitTimeLinear(r, att) ==
    IF r.retryAfter.present /\ r.retryAfter.value # <<>>
    THEN Times(ParseInt(r.retryAfter.value), 1000)
    ELSE (att + 1) * 1000

\* waitTime = retryAfter ? parseInt(retryAfter, 10) * 1000
\*                       : Math.pow(2, attempt) * 1000
WaitTime(r, att) ==
    IF r.retryAfter.present /\ r.retryAfter.value # <<>>
    THEN Times(ParseInt(r.retryAfter.value), 1000)
    ELSE Pow2(att) * 1000

ApiErrorMessage(r) ==
    <<"OpenAI API error: ">> \o Digits(r.status) \o <<" ">> \o StatusText(r.status)
    \o <<". ">> \o r.body

\* Variant: the sentiment is returned as the API gave it.
CoerceSentimentKeep(sentiment) == sentiment

\* Ensure sentiment is one of the valid values.
CoerceSentiment(sentiment) ==
    IF sentiment \notin ValidSentiments THEN "neutral" ELSE sentiment

Continue(w) == [kind |-> "continue", wait |-> w, waits |-> TRUE, message |-> <<>>,
                analysis |-> NullAnalysis]

Error(message) == [kind |-> "error", wait |-> 0, waits |-> FALSE, message |-> message,
                   analysis |-> NullAnalysis]

Return(a) == [kind |-> "return", wait |-> 0, waits |-> FALSE, message |-> <<>>,
              analysis |-> a]

\* Variant: the last attempt is retried too.
RetryAllowedOnLast(att, retries) == att <= retries

\* if (attempt < retries)
RetryAllowed(att, retries) == att < retries

\* The body of the try block for one response.
TryBody(att, retries, r) ==
    IF r.kind = "network" THEN Error(<<"fetch failed">>)
    ELSE IF ~ResponseOk(r)
    THEN IF r.status = 429 /\ RetryAllowed(att, retries)
         THEN Continue(WaitTime(r, att))
         ELSE Error(ApiErrorMessage(r))
    ELSE IF r.answer.kind = "none"
    THEN Error(<<"No analysis content in OpenAI response">>)
    ELSE IF r.answer.kind = "notjson"
    THEN Error(<<"Unexpected token in ", "JSON">>)
    ELSE IF r.answer.summary = "" \/ r.answer.sentiment = "" \/ r.answer.keywords # "array"
    THEN Error(<<"Invalid analysis structure from OpenAI">>)
    ELSE Return([summary |-> r.answer.summary,
                 sentiment |-> CoerceSentiment(r.answer.sentiment),
                 keywords |-> r.answer.keywords])

\* The catch block: does the error leave analyzeContent?
CatchThrows(att, retries, message) ==
    att = retries \/ ~Includes(message, <<"4", "2", "9">>)

\* One iteration of the for loop: the fetch answered r on attempt att.
\* kind "retry": the loop goes on with att + 1, after `wait` ms when `waits`.
HandleResponse(att, retries, r) ==
    LET t == TryBody(att, retries, r)
    IN  CASE t.kind = "continue" -> [t EXCEPT !.kind = "retry"]
          [] t.kind = "return" -> t
          [] OTHER -> IF CatchThrows(att, retries, t.message)
                      THEN [t EXCEPT !.kind = "throw"]
                      ELSE [t EXCEPT !.kind = "retry"]

\* for (let attempt = 0; attempt <= retries; attempt++)
LoopGoesOn(att, retries) == att <= retries

\* The error analyzeContent throws from its catch block.
FinalMessage(message) ==
    IF Includes(message, <<"JSON">>)
    THEN <<"Failed to parse OpenAI response: ">> \o message
    ELSE <<"OpenAI analysis failed: ">> \o message

----------------------------------------------------------------------------
(* Queries and updates of the analyze routes. *)

DefaultLimit == 10

MaxLimit == 50

\* url.searchParams.get('action'): "" is null, no action.
Actions == {"analyze", "delete", ""}

NoRequest == [id |-> 0, action |-> ""]

\* url.searchParams.get('limit'): null, or the text of the parameter.
NoParam == [present |-> FALSE, value |-> <<>>]

LimitValues ==
    {<<>>, <<"0">>, <<"1">>, <<"5", "0">>, <<"5", "1">>, <<"a">>, <<"2", "a">>,
     <<"1", ".", "5">>, <<" ", "2">>}

LimitParams == {NoParam} \cup {[present |-> TRUE, value |-> v] : v \in LimitValues}

\* limitParam ? parseInt(limitParam, 10) : 10 (null and '' are falsy).
LimitOf(param) ==
    IF param.present /\ param.value # <<>> THEN ParseInt(param.value) ELSE DefaultLimit

\* isNaN(limit) || limit < 1 || limit > 50
LimitRejected(limit) == limit = NaN \/ limit < 1 \/ limit > MaxLimit

BadLimit == [Resp(400, FALSE) EXCEPT !.error = "Limit must be between 1 and 50"]

\* Variant: the selector without its filter.
CandidatesAll(table) == table

\* .is('analyzed_at', null)
Candidates(table) == {r \in table : r.analyzed_at = 0}

Min(a, b) == IF a < b THEN a ELSE b

\* The sequences over S without repetition, of length n.
RECURSIVE Arrangements(_, _)
Arrangements(S, n) ==
    IF n = 0 THEN {<<>>}
    ELSE {<<x>> \o t : x \in S, t \in Arrangements(S, n - 1)} \cap
         {s \in UNION {[1..n -> S]} : \A i, j \in 1..n : i # j => s[i] # s[j]}

\* .limit(limit): how many records getUnanalyzedRecords(limit) returns.
SelectionLength(table, limit) == Min(limit, Cardinality(Candidates(table)))

\* Variant: the selector without its ORDER BY.
UnanalyzedSelectionsUnordered(table, limit) ==
    Arrangements(Candidates(table), SelectionLength(table, limit))

\* getUnanalyzedRecords(limit): ORDER BY created_at ASC LIMIT limit. Rows with
\* equal created_at come in any order.
UnanalyzedSelections(table, limit) ==
    LET cand == Candidates(table)
        n == SelectionLength(table, limit)
    IN  {s \in Arrangements(cand, n) :
            /\ \A i, j \in 1..n : i < j => s[i].created_at <= s[j].created_at
            /\ \A r \in cand \ Range(s) : \A i \in 1..n : s[i].created_at <= r.created_at}

\* Variant: the update sets analyzed_at and leaves analysis as it is.
UpdatedRowStampOnly(r, a, t) == [r EXCEPT !.analyzed_at = t]

\* .update({analysis, analyzed_at}).eq('id', recordId).select().single()
UpdatedRow(r, a, t) == [r EXCEPT !.analysis = a, !.analyzed_at = t]

\* Variant: the update without .eq('id', recordId).
TableAfterUpdateAll(table, id, a, t) == {UpdatedRow(r, a, t) : r \in table}

TableAfterUpdate(table, id, a, t) ==
    {IF r.id = id THEN UpdatedRow(r, a, t) ELSE r : r \in table}

HasRow(table, id) == \E r \in table : r.id = id

\* Variant: an update that matches no row is no error.
UpdateFindsAlways(table, id) == TRUE

\* .eq('id', recordId).select().single(): an error unless one row matched.
UpdateFinds(table, id) == HasRow(table, id)

RowIds == 1..MaxRowId

\* The fields of a selected record that the analyze routes read.
Fetched(r) == [id |-> r.id, external_id |-> r.external_id, content |-> r.content,
               analyzed_at |-> r.analyzed_at]

----------------------------------------------------------------------------
(* analyzeContent as a whole: what a call can end in, over every sequence  *)
(* of responses of the completion API.                                     *)

Thrown == [kind |-> "throw", analysis |-> NullAnalysis, answer |-> "null"]

RECURSIVE CallOutcomes(_, _)
CallOutcomes(att, retries) ==
    IF ~LoopGoesOn(att, retries) THEN {Thrown}
    ELSE LET step(r) == HandleResponse(att, retries, r)
         IN  {Thrown : r \in {x \in Responses : step(x).kind = "throw"}}
             \cup {[kind |-> "return", analysis |-> step(r).analysis,
                    answer |-> r.answer.sentiment] :
                      r \in {x \in Responses : step(x).kind = "return"}}
             \cup (IF \E r \in Responses : step(r).kind = "retry"
                   THEN CallOutcomes(att + 1, retries) ELSE {})

DefaultOutcomes == CallOutcomes(0, DefaultRetries)

analyzeContent(content) ==
    IF ContentIsEmpty(content) THEN {Thrown} ELSE DefaultOutcomes

----------------------------------------------------------------------------
(* lib/apify.ts: executeApifyWorkflow = startApifyTask, waitForRunCompletion, *)
(* readApifyItems.  Times are in milliseconds.                               *)

DefaultMaxWaitTime == 300000

PollInterval == 2000

\* How long one GET of the run takes.
Latencies == {0, 1000}

NoPoll == [kind |-> "network", ok |-> FALSE, status |-> "", datasetId |-> ""]

\* data.status of GET /v2/actor-runs/:runId; "" when the body has none.
PollStatuses == {"RUNNING", "TIMED-OUT", "SUCCEEDED", "FAILED", "ABORTED", ""}

PollResponses ==
    {NoPoll, [NoPoll EXCEPT !.kind = "http"]}
    \cup [kind : {"http"}, ok : {TRUE}, status : PollStatuses, datasetId : {"", "d"}]

\* A response to POST .../runs; runId is data.id, "" when the body has none.
NoStart == [kind |-> "none", status |-> 0, runId |-> ""]

StartStatuses == {200, 404, 500}

StartResponses ==
    {[NoStart EXCEPT !.kind = "network"]}
    \cup [kind : {"http"}, status : StartStatuses, runId : {"", "r1"}]

\* res.ok of a response to POST .../runs.
StartOk(r) == r.kind = "http" /\ r.status >= 200 /\ r.status <= 299

\* Variant: the actors endpoint is tried after any failure of the first request.
TriesActorAfterFailure(r) == r.kind = "http" /\ ~StartOk(r)

\* if (res.status === 404): the actors endpoint is tried.
TriesActor(r) == r.kind = "http" /\ r.status = 404

WfIdle ==
    [pc |-> "idle", elapsed |-> 0, last |-> NoPoll, datasetId |-> "", message |-> "",
     requests |-> 0, first |-> NoStart, second |-> NoStart, res |-> NoStart,
     runId |-> "", polled |-> "", read |-> ""]

\* Variant: the dataset is looked up under the id of the run.
ReadTargetRun(w) == w.runId

\* readApifyItems(datasetId): the dataset whose items are fetched.
ReadTarget(w) == w.datasetId

\* Variant: FAILED and ABORTED are polled again like RUNNING.
PollOutcomeKeepsPolling(r) ==
    IF r.kind = "network" THEN [kind |-> "throw", message |-> "fetch failed"]
    ELSE IF ~r.ok THEN [kind |-> "throw", message |-> "Failed to check run status"]
    ELSE IF r.status = "SUCCEEDED"
    THEN IF r.datasetId = ""
         THEN [kind |-> "throw", message |-> "Dataset ID not found in completed run"]
         ELSE [kind |-> "return", message |-> ""]
    ELSE [kind |-> "wait", message |-> ""]

\* The body of the while loop for one response of the poll.
PollOutcome(r) ==
    IF r.kind = "network" THEN [kind |-> "throw", message |-> "fetch failed"]
    ELSE IF ~r.ok THEN [kind |-> "throw", message |-> "Failed to check run status"]
    ELSE IF r.status = "SUCCEEDED"
    THEN IF r.datasetId = ""
         THEN [kind |-> "throw", message |-> "Dataset ID not found in completed run"]
         ELSE [kind |-> "return", message |-> ""]
    ELSE IF r.status \in {"FAILED", "ABORTED"}
    THEN [kind |-> "throw", message |-> "Apify run failed or aborted"]
    ELSE [kind |-> "wait", message |-> ""]

TimeoutMessage == "Run did not complete within timeout period (5 minutes)"

\* Variant: the loop has no time limit.
WithinForever(elapsed, maxWaitTime) == TRUE

\* while (Date.now() - startTime < maxWaitTime)
WithinMaxWait(elapsed, maxWaitTime) == elapsed < maxWaitTime

----------------------------------------------------------------------------
(* Initial state: an empty table, no request in flight. *)

OaIdle ==
    [pc |-> "idle", content |-> <<>>, attempt |-> 0, requests |-> 0,
     last |-> NetworkError, wait |-> 0, result |-> NullAnalysis, message |-> <<>>,
     sent |-> FALSE, gap |-> 0]

Init ==
    /\ records = {}
    /\ now = 1
    /\ nextId = 0
    /\ genCount = 0
    /\ pc = [p \in Slots |-> "idle"]
    /\ route = [p \in Slots |-> "none"]
    /\ nitems = [p \in Slots |-> 0]
    /\ rows = [p \in Slots |-> NoRows]
    /\ batch = [p \in Slots |-> <<>>]
    /\ idx = [p \in Slots |-> 0]
    /\ analysis = [p \in Slots |-> NullAnalysis]
    /\ answer = [p \in Slots |-> "null"]
    /\ results = [p \in Slots |-> 0]
    /\ errors = [p \in Slots |-> 0]
    /\ resp = [p \in Slots |-> NoResp]
    /\ input = <<>>
    /\ phase = 0
    /\ snap = {}
    /\ oa = OaIdle
    /\ wf = WfIdle
    /\ limitParam = [p \in Slots |-> NoParam]
    /\ request = [p \in Slots |-> NoRequest]

\* Requests are anonymous: a new one takes the first free slot of its kind.
FreeSlot(p) ==
    /\ pc[p] = "idle"
    /\ p = "i2" => pc["i1"] # "idle"
    /\ p = "a2" => pc["a1"] # "idle"

\* The handler of slot p returns the response r; its locals are gone.
Respond(p, r) ==
    /\ pc' = [pc EXCEPT ![p] = "done"]
    /\ resp' = [resp EXCEPT ![p] = r]
    /\ nitems' = [nitems EXCEPT ![p] = 0]
    /\ rows' = [rows EXCEPT ![p] = NoRows]
    /\ batch' = [batch EXCEPT ![p] = <<>>]
    /\ idx' = [idx EXCEPT ![p] = 0]
    /\ analysis' = [analysis EXCEPT ![p] = NullAnalysis]
    /\ answer' = [answer EXCEPT ![p] = "null"]
    /\ results' = [results EXCEPT ![p] = 0]
    /\ errors' = [errors EXCEPT ![p] = 0]

AnalyzeLocals == <<batch, idx, analysis, answer, results, errors>>

----------------------------------------------------------------------------
(* POST /api/ingest: executeApifyWorkflow, then storeInSupabase. *)

\* Variant: the response reports every item as stored.
IngestOkCountsItems(n, stored) == [Resp(200, TRUE) EXCEPT !.itemsCount = n, !.storedCount = n]

IngestOk(n, stored) == [Resp(200, TRUE) EXCEPT !.itemsCount = n, !.storedCount = stored]

\* storeInSupabase up to its first query: the empty checks and the mapping.
BeginStore(p, its) ==
    LET rs == mapApifyItemsToRecords(its, genCount)
    IN  /\ genCount + CountGen(its) <= MaxGen
        /\ route' = [route EXCEPT ![p] = "ingest"]
        /\ genCount' = IF Len(its) = 0 THEN genCount ELSE genCount + CountGen(its)
        /\ IF Len(its) = 0 \/ Len(rs) = 0
           THEN Respond(p, IngestOk(Len(its), 0))
           ELSE /\ pc' = [pc EXCEPT ![p] = "store_check"]
                /\ rows' = [rows EXCEPT ![p] = rs]
                /\ nitems' = [nitems EXCEPT ![p] = Len(its)]
                /\ UNCHANGED resp
                /\ UNCHANGED AnalyzeLocals

\* executeApifyWorkflow returned `its`.
IngestStart(p) ==
    /\ FreeSlot(p)
    /\ \E its \in ItemLists : BeginStore(p, its)
    /\ UNCHANGED <<records, now, nextId, input, phase, snap, oa, wf, limitParam, request>>

\* executeApifyWorkflow threw: the catch of the route answers 500.
IngestWorkflowFails(p) ==
    /\ FreeSlot(p)
    /\ route' = [route EXCEPT ![p] = "ingest"]
    /\ Respond(p, Resp(500, FALSE))
    /\ UNCHANGED <<records, now, nextId, genCount, input, phase, snap, oa, wf, limitParam, request>>

\* The connection test, select('id').limit(1), then the existence check and
\* the filter that makes newRows.
StoreCheck(p) ==
    /\ pc[p] = "store_check"
    /\ \E testError, existingIdsError \in BOOLEAN :
          LET newRows == NewRows(rows[p], ExistingIdSet(records, rows[p]))
          IN  IF testError \/ existingIdsError
              THEN Respond(p, Resp(500, FALSE))
              ELSE IF Len(newRows) = 0
              THEN Respond(p, IngestOk(nitems[p], 0))
              ELSE /\ pc' = [pc EXCEPT ![p] = "store_insert"]
                   /\ rows' = [rows EXCEPT ![p] = newRows]
                   /\ UNCHANGED <<resp, nitems>>
                   /\ UNCHANGED AnalyzeLocals
    /\ UNCHANGED <<records, now, nextId, genCount, route, input, phase, snap, oa, wf, limitParam, request>>

\* insert(newRows).select(), and the response of the route.
StoreInsert(p) ==
    /\ pc[p] = "store_insert"
    /\ nextId + Len(rows[p]) <= MaxRowId
    /\ now < MaxNow
    /\ \E unreachable \in BOOLEAN :
          LET r == DbInsert(records, rows[p], nextId, now)
          IN  IF unreachable
              THEN /\ Respond(p, Resp(500, FALSE))
                   /\ UNCHANGED <<records, now, nextId>>
              ELSE IF r.error
              THEN /\ Respond(p, [Resp(500, FALSE) EXCEPT !.error = r.message])
                   /\ records' = r.table
                   /\ UNCHANGED <<now, nextId>>
              ELSE /\ records' = r.table
                   /\ nextId' = nextId + Len(rows[p])
                   /\ now' = now + 1
                   /\ Respond(p, IngestOk(nitems[p], Cardinality(r.data)))
    /\ UNCHANGED <<genCount, route, input, phase, snap, oa, wf, limitParam, request>>

\* The item set `input` of one scraping run is ingested, for the first time
\* (phase 0) or, right after the first ingestion answered ok, a second time.
IngestInput(p) ==
    /\ \/ phase = 0 /\ pc[p] = "idle"
       \/ phase = 1 /\ pc[p] = "done" /\ route[p] = "ingest" /\ resp[p].ok
    /\ phase' = phase + 1
    /\ snap' = IF phase = 1 THEN records ELSE snap
    /\ BeginStore(p, input)
    /\ UNCHANGED <<records, now, nextId, input, oa, wf, limitParam, request>>

\* The response has been sent: the slot is free again.
Finish(p) ==
    /\ pc[p] = "done"
    /\ pc' = [pc EXCEPT ![p] = "idle"]
    /\ route' = [route EXCEPT ![p] = "none"]
    /\ resp' = [resp EXCEPT ![p] = NoResp]
    /\ limitParam' = [limitParam EXCEPT ![p] = NoParam]
    /\ request' = [request EXCEPT ![p] = NoRequest]
    /\ UNCHANGED <<records, now, nextId, genCount, nitems, rows, input, phase, snap, oa, wf>>
    /\ UNCHANGED AnalyzeLocals

----------------------------------------------------------------------------
(* POST /api/analyze and POST /api/records/:id?action=analyze. *)

IngestVars == <<genCount, input, phase, snap, wf, limitParam, request>>

\* Variant: the loop of POST /api/analyze ends at the first record that fails.
NextRecordStopsOnFailure(p, res, err, status) ==
    IF route[p] = "batch" /\ idx[p] < Len(batch[p]) /\ err = errors[p]
    THEN /\ idx' = [idx EXCEPT ![p] = idx[p] + 1]
         /\ pc' = [pc EXCEPT ![p] = "analyze"]
         /\ results' = [results EXCEPT ![p] = res]
         /\ errors' = [errors EXCEPT ![p] = err]
         /\ analysis' = [analysis EXCEPT ![p] = NullAnalysis]
         /\ answer' = [answer EXCEPT ![p] = "null"]
         /\ UNCHANGED <<resp, batch, nitems, rows>>
    ELSE IF route[p] = "batch"
    THEN Respond(p, [Resp(200, TRUE) EXCEPT !.selected = Len(batch[p]),
                                            !.analyzed = res, !.failed = err])
    ELSE Respond(p, Resp(status, status = 200))

\* The loop of POST /api/analyze moves to the next record, or the route
\* answers; the single-record route answers.
NextRecord(p, res, err, status) ==
    IF route[p] = "batch" /\ idx[p] < Len(batch[p])
    THEN /\ idx' = [idx EXCEPT ![p] = idx[p] + 1]
         /\ pc' = [pc EXCEPT ![p] = "analyze"]
         /\ results' = [results EXCEPT ![p] = res]
         /\ errors' = [errors EXCEPT ![p] = err]
         /\ analysis' = [analysis EXCEPT ![p] = NullAnalysis]
         /\ answer' = [answer EXCEPT ![p] = "null"]
         /\ UNCHANGED <<resp, batch, nitems, rows>>
    ELSE IF route[p] = "batch"
    THEN Respond(p, [Resp(200, TRUE) EXCEPT !.selected = Len(batch[p]),
                                            !.analyzed = res, !.failed = err])
    ELSE Respond(p, Resp(status, status = 200))

\* getUnanalyzedRecords(limit) in POST /api/analyze, and the empty-batch answer.
SelectBatch(p, limit) ==
    \E error \in BOOLEAN :
       IF error
       THEN Respond(p, Resp(500, FALSE))
       ELSE \E sel \in UnanalyzedSelections(records, limit) :
               IF Len(sel) = 0
               THEN Respond(p, Resp(200, TRUE))
               ELSE /\ batch' = [batch EXCEPT ![p] = [i \in DOMAIN sel |-> Fetched(sel[i])]]
                    /\ idx' = [idx EXCEPT ![p] = 1]
                    /\ pc' = [pc EXCEPT ![p] = "analyze"]
                    /\ UNCHANGED <<resp, nitems, rows, analysis, answer, results, errors>>

\* POST /api/analyze: the limit is checked and the batch is selected.
BatchStart(p) ==
    /\ FreeSlot(p)
    /\ route' = [route EXCEPT ![p] = "batch"]
    /\ \E param \in LimitParams :
          IF LimitRejected(LimitOf(param))
          THEN Respond(p, BadLimit)
          ELSE SelectBatch(p, LimitOf(param))
    /\ UNCHANGED <<records, now, nextId, oa>>
    /\ UNCHANGED IngestVars

\* Variant: any action analyzes.
ActionIsAnything(action) == TRUE

\* action === 'analyze'
ActionIsAnalyze(action) == action = "analyze"

BadAction == [Resp(400, FALSE) EXCEPT !.error = "Invalid action. Use ?action=analyze"]

NotFound == [Resp(404, FALSE) EXCEPT !.error = "Record not found"]

\* POST /api/records/:id?action=analyze: the action is checked and the record
\* is read.
SingleStart(p) ==
    /\ FreeSlot(p)
    /\ route' = [route EXCEPT ![p] = "single"]
    /\ \E id \in RowIds, action \in Actions, fetchError \in BOOLEAN :
          /\ request' = [request EXCEPT ![p] = [id |-> id, action |-> action]]
          /\ IF ~ActionIsAnalyze(action)
             THEN Respond(p, BadAction)
             ELSE IF fetchError \/ ~HasRow(records, id)
             THEN Respond(p, NotFound)
             ELSE /\ batch' = [batch EXCEPT ![p] = <<Fetched(CHOOSE r \in records : r.id = id)>>]
                  /\ idx' = [idx EXCEPT ![p] = 1]
                  /\ pc' = [pc EXCEPT ![p] = "analyze"]
                  /\ UNCHANGED <<resp, nitems, rows, analysis, answer, results, errors>>
    /\ UNCHANGED <<records, now, nextId, genCount, input, phase, snap, oa, wf, limitParam>>

\* analyzeContent(record.content), from its entry check to its return or throw.
AnalyzeCall(p) ==
    /\ pc[p] = "analyze"
    /\ \E o \in analyzeContent(batch[p][idx[p]].content) :
          IF o.kind = "return"
          THEN /\ pc' = [pc EXCEPT ![p] = "update"]
               /\ analysis' = [analysis EXCEPT ![p] = o.analysis]
               /\ answer' = [answer EXCEPT ![p] = o.answer]
               /\ UNCHANGED <<idx, results, errors, resp, batch, nitems, rows>>
          ELSE NextRecord(p, results[p], errors[p] + 1, 500)
    /\ UNCHANGED <<records, now, nextId, route, oa>>
    /\ UNCHANGED IngestVars

\* updateRecordAnalysis(record.id, analysis), then results.push and, when the
\* record is not the last of the batch, the delay; `paused` is the clock of
\* the completion API's requests after that delay.
UpdateStep(p, paused) ==
    /\ pc[p] = "update"
    /\ now < MaxNow
    /\ LET id == batch[p][idx[p]].id
       IN  \E error \in BOOLEAN :
              IF error \/ ~UpdateFinds(records, id)
              THEN /\ NextRecord(p, results[p], errors[p] + 1, 500)
                   /\ UNCHANGED <<records, now, oa>>
              ELSE /\ records' = TableAfterUpdate(records, id, analysis[p], now)
                   /\ now' = now + 1
                   /\ NextRecord(p, results[p] + 1, errors[p], 200)
                   /\ oa' = IF idx[p] < Len(batch[p]) THEN paused ELSE oa
    /\ UNCHANGED <<nextId, route>>
    /\ UNCHANGED IngestVars

AnalyzeUpdate(p) == UpdateStep(p, oa)

\* Variant: the delete without .eq('id', recordId).
TableAfterDeleteAll(table, id) == {}

\* .delete().eq('id', recordId)
TableAfterDelete(table, id) == {r \in table : r.id # id}

\* DELETE /api/records/:id
DeleteRecord ==
    /\ \E id \in RowIds : HasRow(records, id) /\ records' = TableAfterDelete(records, id)
    /\ UNCHANGED <<now, nextId, pc, resp, route, nitems, rows, oa>>
    /\ UNCHANGED IngestVars
    /\ UNCHANGED AnalyzeLocals

----------------------------------------------------------------------------
(* The application: one POST /api/ingest and one request to an analyze     *)
(* route in flight, and DELETE /api/records/:id.                           *)

Next ==
    \/ IngestStart("i1")
    \/ IngestWorkflowFails("i1")
    \/ StoreCheck("i1")
    \/ StoreInsert("i1")
    \/ BatchStart("a1")
    \/ SingleStart("a1")
    \/ AnalyzeCall("a1")
    \/ AnalyzeUpdate("a1")
    \/ \E p \in {"i1", "a1"} : Finish(p)
    \/ DeleteRecord

Spec == Init /\ [][Next]_vars

----------------------------------------------------------------------------
(* Two POST /api/ingest in flight.  The table starts empty, or holding one *)
(* analyzed record: the state Spec reaches by ingesting one item that has  *)
(* neither id, url nor uniqueId and analyzing it.                          *)

SeedRow ==
    [id |-> 1, external_id |-> GenId(1), source |-> "unknown", content |-> <<"x">>,
     analysis |-> [summary |-> "s", sentiment |-> "positive", keywords |-> "array"],
     analyzed_at |-> 2, created_at |-> 1]

Quiet ==
    /\ pc = [p \in Slots |-> "idle"]
    /\ route = [p \in Slots |-> "none"]
    /\ nitems = [p \in Slots |-> 0]
    /\ rows = [p \in Slots |-> NoRows]
    /\ batch = [p \in Slots |-> <<>>]
    /\ idx = [p \in Slots |-> 0]
    /\ analysis = [p \in Slots |-> NullAnalysis]
    /\ answer = [p \in Slots |-> "null"]
    /\ results = [p \in Slots |-> 0]
    /\ errors = [p \in Slots |-> 0]
    /\ resp = [p \in Slots |-> NoResp]
    /\ input = <<>>
    /\ phase = 0
    /\ snap = {}
    /\ oa = OaIdle
    /\ wf = WfIdle
    /\ limitParam = [p \in Slots |-> NoParam]
    /\ request = [p \in Slots |-> NoRequest]

Seeded ==
    /\ records = {SeedRow}
    /\ now = 3
    /\ nextId = 1
    /\ genCount = 1

InitIngest == Init \/ (Seeded /\ Quiet)

NextIngest ==
    \E p \in Ingesters :
        \/ IngestStart(p)
        \/ IngestWorkflowFails(p)
        \/ StoreCheck(p)
        \/ StoreInsert(p)
        \/ Finish(p)

SpecIngest == InitIngest /\ [][NextIngest]_vars

----------------------------------------------------------------------------
(* One scraping run's item set ingested twice in a row, nothing else       *)
(* running.                                                                *)

InitReingest ==
    /\ records = {} /\ now = 1 /\ nextId = 0 /\ genCount = 0
    /\ Quiet!1 /\ Quiet!2 /\ Quiet!3 /\ Quiet!4 /\ Quiet!5 /\ Quiet!6
    /\ Quiet!7 /\ Quiet!8 /\ Quiet!9 /\ Quiet!10 /\ Quiet!11
    /\ input \in ItemLists
    /\ phase = 0
    /\ snap = {}
    /\ oa = OaIdle
    /\ wf = WfIdle
    /\ limitParam = [p \in Slots |-> NoParam]
    /\ request = [p \in Slots |-> NoRequest]

NextReingest ==
    \/ IngestInput("i1")
    \/ StoreCheck("i1")
    \/ StoreInsert("i1")

SpecReingest == InitReingest /\ [][NextReingest]_vars

----------------------------------------------------------------------------
(* One call of analyzeContent, request by request. *)

Contents == {<<>>, <<"x">>, <<" ">>, <<" ", "x">>}

OaUnchanged == UNCHANGED <<records, now, nextId, genCount, pc, nitems, rows, batch, idx,
                           analysis, answer, results, errors, resp, route, input,
                           phase, snap, wf, limitParam, request>>

\* analyzeContent(c) is called: the entry check.
OaStart(c, from) ==
    IF ContentIsEmpty(c)
    THEN [from EXCEPT !.pc = "thrown", !.content = c,
                      !.message = <<"Content cannot be empty">>]
    ELSE [from EXCEPT !.pc = "fetch", !.content = c]

OaCall ==
    /\ oa.pc = "idle"
    /\ \E c \in Contents : oa' = OaStart(c, OaIdle)
    /\ OaUnchanged

\* One request to the completion API, and what the loop does with the response.
OaFetch ==
    /\ oa.pc = "fetch"
    /\ IF ~LoopGoesOn(oa.attempt, DefaultRetries)
       THEN oa' = [oa EXCEPT !.pc = "thrown",
                             !.message = <<"OpenAI analysis failed after all retries">>]
       ELSE \E r \in Responses :
               LET h == HandleResponse(oa.attempt, DefaultRetries, r)
                   sent == [oa EXCEPT !.requests = oa.requests + 1, !.last = r,
                                      !.sent = TRUE, !.gap = 0]
               IN  oa' = CASE h.kind = "retry" /\ h.waits ->
                                 [sent EXCEPT !.pc = "wait", !.wait = h.wait]
                           [] h.kind = "retry" /\ ~h.waits ->
                                 [sent EXCEPT !.attempt = oa.attempt + 1]
                           [] h.kind = "return" ->
                                 [sent EXCEPT !.pc = "returned", !.result = h.analysis]
                           [] OTHER ->
                                 [sent EXCEPT !.pc = "thrown",
                                              !.message = FinalMessage(h.message)]
    /\ OaUnchanged

\* What setTimeout(resolve, ms) lets pass: a NaN delay is no delay.
Elapsed(ms) == IF ms = NaN THEN 0 ELSE ms

\* The wait is over: continue, with attempt + 1.
OaWake ==
    /\ oa.pc = "wait"
    /\ oa' = [oa EXCEPT !.pc = "fetch", !.attempt = oa.attempt + 1, !.wait = 0,
                        !.gap = oa.gap + Elapsed(oa.wait)]
    /\ OaUnchanged

\* The caller has the result.
OaReset ==
    /\ oa.pc \in {"returned", "thrown"}
    /\ oa' = OaIdle
    /\ OaUnchanged

NextOpenAI == OaCall \/ OaFetch \/ OaWake \/ OaReset

SpecOpenAI == Init /\ [][NextOpenAI]_vars

----------------------------------------------------------------------------
(* One POST /api/analyze run with its calls of analyzeContent request by   *)
(* request, on the table that ingesting two items into the empty table     *)
(* leaves: two unanalyzed records of one insert.                           *)

InterRequestDelay == 21000

TwoItems ==
    <<[id |-> "a", url |-> "", uniqueId |-> "", text |-> <<"x">>],
      [id |-> "", url |-> "", uniqueId |-> "", text |-> <<"x">>]>>

InitRun ==
    /\ records = InsertedRows(mapApifyItemsToRecords(TwoItems, 0), 0, 1)
    /\ now = 2
    /\ nextId = 2
    /\ genCount = 1
    /\ Quiet

\* What a call of analyzeContent leaves behind for the next one: the time
\* since the run's last request.
Carry(o) == [OaIdle EXCEPT !.sent = o.sent, !.gap = o.gap]

RunUnchanged == UNCHANGED <<records, now, nextId, route, genCount, input, phase, snap, wf, limitParam, request>>

\* const analysis = await analyzeContent(record.content): the call starts.
RunCall(p) ==
    /\ pc[p] = "analyze"
    /\ oa.pc = "idle"
    /\ oa' = OaStart(batch[p][idx[p]].content, Carry(oa))
    /\ UNCHANGED <<pc, resp, nitems, rows>>
    /\ UNCHANGED AnalyzeLocals
    /\ RunUnchanged

\* analyzeContent returned.
RunReturn(p) ==
    /\ pc[p] = "analyze"
    /\ oa.pc = "returned"
    /\ pc' = [pc EXCEPT ![p] = "update"]
    /\ analysis' = [analysis EXCEPT ![p] = oa.result]
    /\ answer' = [answer EXCEPT ![p] = oa.last.answer.sentiment]
    /\ oa' = Carry(oa)
    /\ UNCHANGED <<idx, results, errors, resp, batch, nitems, rows>>
    /\ RunUnchanged

\* analyzeContent threw: the catch of the loop, and the next record at once.
RunThrow(p) ==
    /\ pc[p] = "analyze"
    /\ oa.pc = "thrown"
    /\ NextRecord(p, results[p], errors[p] + 1, 500)
    /\ oa' = Carry(oa)
    /\ RunUnchanged

\* updateRecordAnalysis, and after a success that is not the last record
\* await new Promise(resolve => setTimeout(resolve, delay)).
RunUpdate(p) == UpdateStep(p, [oa EXCEPT !.gap = oa.gap + InterRequestDelay])

\* A request to the completion API, or the end of a wait, within the run.
RunFetch(p) == pc[p] = "analyze" /\ OaFetch

RunWake(p) == pc[p] = "analyze" /\ OaWake

NextRun ==
    \/ BatchStart("a1")
    \/ RunCall("a1")
    \/ RunFetch("a1")
    \/ RunWake("a1")
    \/ RunReturn("a1")
    \/ RunThrow("a1")
    \/ RunUpdate("a1")

SpecRun == InitRun /\ [][NextRun]_vars

----------------------------------------------------------------------------
(* executeApifyWorkflow poll by poll, alone and inside POST /api/ingest. *)

WfUnchanged == UNCHANGED <<records, now, nextId, genCount, pc, nitems, rows, batch, idx,
                           analysis, answer, results, errors, resp, route, input,
                           phase, snap, oa, limitParam, request>>

\* startApifyTask up to its last response: the request to the actor-tasks
\* endpoint and, after a 404, the request to the actors endpoint.  Without
\* APIFY_TASK_ID or APIFY_TOKEN it throws before any request; a fetch that
\* rejects throws.
StartTask ==
    /\ wf.pc = "idle"
    /\ \E configured \in BOOLEAN, first, second \in StartResponses :
          wf' = IF ~configured
                THEN [WfIdle EXCEPT !.pc = "thrown",
                                    !.message = "APIFY_TASK_ID and APIFY_TOKEN must be set"]
                ELSE IF first.kind = "network"
                THEN [WfIdle EXCEPT !.pc = "thrown", !.message = "fetch failed",
                                    !.requests = 1, !.first = first]
                ELSE IF ~TriesActor(first)
                THEN [WfIdle EXCEPT !.pc = "started", !.requests = 1, !.first = first,
                                    !.res = first]
                ELSE IF second.kind = "network"
                THEN [WfIdle EXCEPT !.pc = "thrown", !.message = "fetch failed",
                                    !.requests = 2, !.first = first, !.second = second]
                ELSE [WfIdle EXCEPT !.pc = "started", !.requests = 2, !.first = first,
                                    !.second = second, !.res = second]

\* startApifyTask from its last response on: it throws, or returns the run id
\* to executeApifyWorkflow, which calls waitForRunCompletion(runId);
\* startTime = Date.now().
StartReturn ==
    /\ wf.pc = "started"
    /\ wf' = IF ~StartOk(wf.res)
             THEN [WfIdle EXCEPT !.pc = "thrown", !.message = "Failed to start Apify task"]
             ELSE IF wf.res.runId = ""
             THEN [WfIdle EXCEPT !.pc = "thrown",
                                 !.message = "Invalid response structure. Run ID not found"]
             ELSE [WfIdle EXCEPT !.pc = "poll", !.runId = wf.res.runId]
    /\ WfUnchanged

\* The loop test of waitForRunCompletion and, when it passes, one poll.
WfPoll ==
    /\ wf.pc = "poll"
    /\ IF ~WithinMaxWait(wf.elapsed, DefaultMaxWaitTime)
       THEN wf' = [wf EXCEPT !.pc = "thrown", !.message = TimeoutMessage]
       ELSE \E r \in PollResponses, latency \in Latencies :
               LET o == PollOutcome(r)
                   polled == [wf EXCEPT !.last = r, !.elapsed = wf.elapsed + latency,
                                        !.polled = wf.runId]
               IN  wf' = CASE o.kind = "throw" ->
                                 [polled EXCEPT !.pc = "thrown", !.message = o.message]
                           [] o.kind = "return" ->
                                 [polled EXCEPT !.pc = "returned", !.datasetId = r.datasetId]
                           [] OTHER -> [polled EXCEPT !.pc = "wait"]
    /\ WfUnchanged

\* await new Promise(resolve => setTimeout(resolve, pollInterval)) is over.
WfWake ==
    /\ wf.pc = "wait"
    /\ wf' = [wf EXCEPT !.pc = "poll", !.elapsed = wf.elapsed + PollInterval]
    /\ WfUnchanged

\* readApifyItems(datasetId) returned the items, or threw.
WfRead ==
    /\ wf.pc = "returned"
    /\ \E ok \in BOOLEAN :
          wf' = IF ok THEN [wf EXCEPT !.pc = "items", !.read = ReadTarget(wf)]
                ELSE [wf EXCEPT !.pc = "thrown", !.read = ReadTarget(wf),
                                !.message = "Failed to read Apify dataset items"]
    /\ WfUnchanged

\* executeApifyWorkflow is called on its own.
WfBegin == StartTask /\ WfUnchanged

\* Its caller has the items or the error.
WfReset ==
    /\ wf.pc \in {"items", "thrown"}
    /\ wf' = WfIdle
    /\ WfUnchanged

NextPoll == WfBegin \/ StartReturn \/ WfPoll \/ WfWake \/ WfRead \/ WfReset

SpecPoll == Init /\ [][NextPoll]_vars

\* Every poll gets its response and every timer fires.
SpecPollFair == SpecPoll /\ WF_vars(WfPoll) /\ WF_vars(WfWake)

\* POST /api/ingest calls executeApifyWorkflow.
WorkflowStart(p) ==
    /\ FreeSlot(p)
    /\ StartTask
    /\ pc' = [pc EXCEPT ![p] = "workflow"]
    /\ route' = [route EXCEPT ![p] = "ingest"]
    /\ UNCHANGED <<records, now, nextId, genCount, nitems, rows, resp, input, phase,
                   snap, oa, limitParam, request>>
    /\ UNCHANGED AnalyzeLocals

\* Variant: a workflow that threw counts as one that returned no items.
WorkflowThrewAsEmpty(p) ==
    /\ pc[p] = "workflow"
    /\ wf.pc = "thrown"
    /\ wf' = WfIdle
    /\ Respond(p, IngestOk(0, 0))
    /\ UNCHANGED <<records, now, nextId, genCount, route, input, phase, snap, oa, limitParam, request>>

\* executeApifyWorkflow threw: the catch of the route answers 500.
WorkflowThrew(p) ==
    /\ pc[p] = "workflow"
    /\ wf.pc = "thrown"
    /\ wf' = WfIdle
    /\ Respond(p, [Resp(500, FALSE) EXCEPT !.error = wf.message])
    /\ UNCHANGED <<records, now, nextId, genCount, route, input, phase, snap, oa, limitParam, request>>

\* executeApifyWorkflow returned the items: storeInSupabase(items).
WorkflowReturned(p) ==
    /\ pc[p] = "workflow"
    /\ wf.pc = "items"
    /\ wf' = WfIdle
    /\ \E its \in ItemLists : BeginStore(p, its)
    /\ UNCHANGED <<records, now, nextId, input, phase, snap, oa, limitParam, request>>

NextWorkflow ==
    \/ WorkflowStart("i1")
    \/ StartReturn
    \/ WfPoll
    \/ WfWake
    \/ WfRead
    \/ WorkflowThrew("i1")
    \/ WorkflowReturned("i1")
    \/ StoreCheck("i1")
    \/ StoreInsert("i1")

\* One POST /api/ingest, on the empty table or on the table with one analyzed
\* record.
SpecWorkflow == InitIngest /\ [][NextWorkflow]_vars

----------------------------------------------------------------------------
(* Properties of ingestion. *)

\* C1 (SpecIngest): after any sequence and any interleaving of POST
\* /api/ingest runs, no two rows of the records table have the same
\* external_id.
C1_ExternalIdUnique ==
    \A r1, r2 \in records : r1.external_id = r2.external_id => r1 = r2

\* Two overlapping ingestions of the same external_id have both answered: one
\* stored its row, the datastore refused the other's insert.
C1_Witness ==
    /\ resp["i1"].ok /\ resp["i1"].storedCount >= 1
    /\ resp["i2"].error = DuplicateKey
    /\ Cardinality(records) >= 1

\* C2 (SpecReingest), as the specification states it: when the item set of a
\* scraping run has been ingested and is ingested a second time, the second
\* ingestion leaves the table as the first left it and answers storedCount 0.
C2_ReingestAddsNothing ==
    (phase = 2 /\ pc["i1"] = "done") =>
        /\ records = snap
        /\ resp["i1"].ok => resp["i1"].storedCount = 0

C10_NoConstraintViolation ==
    \A p \in Ingesters : resp[p].error # DuplicateKey

----------------------------------------------------------------------------
(* Properties of the analyze routes. *)

\* Slot p is about to run updateRecordAnalysis on record id.
UpdatesRecord(p, id) == pc[p] = "update" /\ batch[p][idx[p]].id = id

C9_BatchWasUnanalyzed ==
    \A p \in Analyzers :
        (route[p] = "batch" /\ pc[p] \in {"analyze", "update"}) =>
            \A i \in DOMAIN batch[p] : batch[p][i].analyzed_at = 0

\* A batch run is at its first record and has updated nothing yet, and the
\* table holds an analyzed record: the run did not select it.
C9_Witness ==
    /\ route["a1"] = "batch" /\ pc["a1"] = "update" /\ idx["a1"] = 1
    /\ \E r \in records :
          /\ r.analyzed_at # 0
          /\ \A i \in DOMAIN batch["a1"] : batch["a1"][i].id # r.id

----------------------------------------------------------------------------
(* Properties of analyzeContent. *)

AnsweredHttp == oa.requests >= 1 /\ oa.last.kind = "http"

\* C5 (SpecOpenAI): one call of analyzeContent with the default retries sends
\* at most 4 requests, and when the 4th response is 429 too the call throws.
C5_AtMostFourRequests ==
    /\ oa.requests <= DefaultRetries + 1
    /\ (oa.requests = DefaultRetries + 1 /\ AnsweredHttp /\ oa.last.status = 429) =>
          oa.pc = "thrown"

\* Four requests were answered 429 and the call has thrown.
C5_Witness ==
    /\ oa.requests = 4 /\ oa.attempt = 3
    /\ oa.last.kind = "http" /\ oa.last.status = 429
    /\ oa.pc = "thrown"

\* C6 (SpecOpenAI), as the specification states it: after a response whose
\* failure status is not 429, whatever its body, the call has thrown.
C6_OtherFailureThrows ==
    (AnsweredHttp /\ ~ResponseOk(oa.last) /\ oa.last.status # 429) => oa.pc = "thrown"

\* The retry-after values that are decimal numbers, and their seconds.
NumericSeconds(v) ==
    CASE v = <<"0">> -> 0
      [] v = <<"1">> -> 1
      [] v = <<"1", "0">> -> 10
      [] OTHER -> NaN

HeaderIsNumber(h) == h.present /\ NumericSeconds(h.value) # NaN

Max(a, b) == IF a > b THEN a ELSE b

BackoffSeconds(k) == CASE k = 0 -> 1 [] k = 1 -> 2 [] k = 2 -> 4 [] OTHER -> NaN

\* C7 (SpecOpenAI), as the specification states it: the wait after a 429 on
\* attempt k is max(retry-after seconds, 2^k seconds), the header counting
\* for 0 when the response has none.
C7_WaitIsMax ==
    (oa.pc = "wait" /\ (HeaderIsNumber(oa.last.retryAfter) \/ ~oa.last.retryAfter.present)) =>
        oa.wait = 1000 * Max(IF oa.last.retryAfter.present
                             THEN NumericSeconds(oa.last.retryAfter.value) ELSE 0,
                             BackoffSeconds(oa.attempt))

\* C7 (SpecOpenAI), amended: the wait after a 429 on attempt k is the
\* retry-after header's number of seconds when the response has a non-empty
\* retry-after header, and 2^k seconds when it has none or an empty one; a
\* header that does not start with a number gives no usable wait.
C7_WaitIsHeaderOrBackoff ==
    oa.pc = "wait" =>
        /\ oa.attempt \in 0..2
        /\ oa.last.status = 429
        /\ LET h == oa.last.retryAfter
           IN  oa.wait = IF h.present /\ h.value # <<>>
                         THEN IF HeaderIsNumber(h) THEN 1000 * NumericSeconds(h.value) ELSE NaN
                         ELSE 1000 * BackoffSeconds(oa.attempt)

\* After a 429 on attempt 2 with retry-after: 1 the call waits 1 second, not 4.
C7_Witness ==
    /\ oa.pc = "wait" /\ oa.attempt = 2
    /\ oa.last.retryAfter = [present |-> TRUE, value |-> <<"1">>]
    /\ oa.wait = 1000

\* The API answered 200 with JSON whose summary and keywords are well formed.
WellFormedButSentiment ==
    /\ AnsweredHttp /\ ResponseOk(oa.last) /\ oa.last.answer.kind = "json"
    /\ oa.last.answer.summary # "" /\ oa.last.answer.keywords = "array"

\* C8 (SpecOpenAI), as the specification states it: for any sentiment value
\* outside {positive, neutral, negative} in an otherwise well-formed answer,
\* the call does not fail and returns sentiment "neutral".
C8_AnyOtherIsNeutral ==
    (WellFormedButSentiment /\ oa.last.answer.sentiment \notin ValidSentiments) =>
        oa.pc = "returned" /\ oa.result.sentiment = "neutral"

\* C8 (SpecOpenAI), amended: every analysis analyzeContent returns has its
\* sentiment in {positive, neutral, negative}: a value of the set is kept, any
\* other non-empty value becomes "neutral"; an empty or missing sentiment is
\* not coerced, the call throws.
C8_NonEmptyOtherIsNeutral ==
    /\ oa.pc = "returned" =>
          /\ oa.result.sentiment \in ValidSentiments
          /\ WellFormedButSentiment
          /\ oa.last.answer.sentiment # ""
          /\ oa.result.sentiment = IF oa.last.answer.sentiment \in ValidSentiments
                                   THEN oa.last.answer.sentiment ELSE "neutral"
    /\ WellFormedButSentiment =>
          IF oa.last.answer.sentiment = "" THEN oa.pc = "thrown" ELSE oa.pc = "returned"

\* The API answered sentiment "mixed" and the call returned "neutral".
C8_Witness ==
    /\ oa.pc = "returned"
    /\ oa.last.answer.sentiment = "mixed"
    /\ oa.result.sentiment = "neutral"

----------------------------------------------------------------------------
(* Properties of a POST /api/analyze run. *)

\* The records the run of slot p has analyzed so far, as it counts them.
Analyzed(p) == IF pc[p] = "done" THEN resp[p].analyzed ELSE results[p]

\* This step wrote an analysis to a record.
PersistsAnalysis == now' = now + 1 /\ \E r \in records' : r.analyzed_at = now

\* The run of slot p is in its loop.
InBatch(p) == route[p] = "batch" /\ pc[p] \in {"analyze", "update"}

BatchAnswered(p) == route[p] = "batch" /\ pc[p] = "done" /\ resp[p].status = 200

\* The records before the current one have each been counted once.
BatchProgress(p) ==
    /\ idx[p] \in 1..Len(batch[p])
    /\ results[p] + errors[p] = idx[p] - 1

\* The step is one of slot p's handler.
Moves(p) == <<pc[p], idx[p]>>' # <<pc[p], idx[p]>>

\* A step taken while slot p is in its loop.
BatchStep(p) ==
    /\ Analyzed(p)' = Analyzed(p) + (IF PersistsAnalysis THEN 1 ELSE 0)
    /\ (Moves(p) /\ pc'[p] = "analyze") => (idx'[p] = idx[p] + 1 /\ batch'[p] = batch[p])
    /\ (Moves(p) /\ pc'[p] = "update") => UNCHANGED <<idx, batch, results, errors>>
    /\ (Moves(p) /\ pc'[p] = "done") =>
          (idx[p] = Len(batch[p]) /\ resp'[p].selected = Len(batch[p]) /\ resp'[p].status = 200)

\* C11 (Spec): a POST /api/analyze run takes its records one by one in
\* selection order, each once; a failure of analyzeContent or of
\* updateRecordAnalysis moves it to the next record; its count of analyzed
\* records grows by one exactly in the steps that persist an analysis; and its
\* response has analyzed + failed = the number of records it selected.
C11_BatchContinues ==
    [][/\ InBatch("a1") => BatchStep("a1")
       /\ InBatch("a1")' => BatchProgress("a1")'
       /\ BatchAnswered("a1")' =>
             (resp["a1"].analyzed + resp["a1"].failed = resp["a1"].selected)']_vars

\* The first record of a batch of two has failed and the run is about to
\* persist the analysis of the second.
C11_Witness ==
    /\ route["a1"] = "batch" /\ pc["a1"] = "update"
    /\ Len(batch["a1"]) = 2 /\ idx["a1"] = 2
    /\ errors["a1"] = 1 /\ results["a1"] = 0

\* The step sends the first request of a call of analyzeContent.
SendsFirstRequest == oa.requests = 0 /\ oa'.requests = 1

\* C12 (SpecRun), as the specification states it, for requests that belong to
\* different records: when a POST /api/analyze run has sent a request to the
\* completion API and sends the first request for another record, at least 21
\* seconds of waiting lie between the two, whatever the earlier one's outcome.
C12_RequestsSpaced ==
    [][(SendsFirstRequest /\ oa.sent) => oa.gap >= InterRequestDelay]_vars

----------------------------------------------------------------------------
(* Properties of the Apify workflow. *)

Polling == wf.pc \in {"poll", "wait"}

Ended == wf.pc \in {"returned", "thrown"}

\* The last poll was answered with a failure: a non-OK HTTP status, or the
\* run status FAILED or ABORTED.
PollFailed ==
    wf.last.kind = "http" /\ (~wf.last.ok \/ wf.last.status \in {"FAILED", "ABORTED"})

PollSucceeded ==
    /\ wf.last.kind = "http" /\ wf.last.ok
    /\ wf.last.status = "SUCCEEDED" /\ wf.last.datasetId # ""

\* What holds of every poll, whatever its answer.
PollsUntilSucceeded ==
    /\ wf.pc \in {"returned", "items"} => (PollSucceeded /\ wf.datasetId = wf.last.datasetId)
    /\ PollFailed => wf.pc = "thrown"
    /\ PollSucceeded => wf.pc \in {"returned", "items", "thrown"}
    /\ wf.pc = "wait" =>
          /\ wf.last.kind = "http" /\ wf.last.ok
          /\ wf.last.status \notin {"SUCCEEDED", "FAILED", "ABORTED"}

\* After the call has thrown nothing more is polled.
ThrownIsFinal == wf.pc = "thrown" => wf' \in {wf, WfIdle}

\* The wait after a status that is neither SUCCEEDED, FAILED nor ABORTED.
WaitsPollInterval ==
    (wf.pc = "wait" /\ wf' # wf) =>
        (wf'.pc = "poll" /\ wf'.elapsed = wf.elapsed + PollInterval /\ wf'.last = wf.last)

\* C13 (SpecPoll), as the specification states it: after any status other
\* than SUCCEEDED, FAILED and ABORTED the call waits 2 seconds and polls
\* again; the rest of the claim as in the amended statement.
C13_AlwaysPollsAgain ==
    [][/\ PollsUntilSucceeded'
       /\ ThrownIsFinal
       /\ WaitsPollInterval
       /\ (wf.pc = "poll" /\ wf' # wf) => wf'.message # TimeoutMessage]_vars

\* C13 (SpecPoll), amended: waitForRunCompletion returns a dataset id only
\* when a poll reported SUCCEEDED with a defaultDatasetId, and returns that
\* id; it throws as soon as a poll reports FAILED, ABORTED or a non-OK HTTP
\* status and polls no more; after any other status it waits 2 seconds and
\* then polls again if less than maxWaitTime has passed since the start, and
\* throws the timeout error otherwise.
C13_PollsUntilSucceeded ==
    [][/\ PollsUntilSucceeded'
       /\ ThrownIsFinal
       /\ WaitsPollInterval
       /\ (wf.pc = "poll" /\ wf' # wf) =>
             IF wf.elapsed < DefaultMaxWaitTime
             THEN wf'.message # TimeoutMessage /\ wf'.pc \in {"wait", "returned", "thrown"}
             ELSE wf'.message = TimeoutMessage /\ wf'.pc = "thrown"]_vars

\* After two polls that found the run RUNNING, a third has returned the
\* dataset id.
C13_Witness ==
    /\ wf.pc = "returned" /\ wf.datasetId = "d"
    /\ wf.elapsed >= 2 * PollInterval

\* C14 (SpecPollFair): when every poll gets a response, waitForRunCompletion
\* ends; it polls only while less than maxWaitTime has passed since it
\* started, so while it runs the time passed stays below maxWaitTime plus one
\* poll and one wait, and it throws the timeout error only when maxWaitTime
\* has passed.
C14_Terminates ==
    /\ [](Polling => wf.elapsed < DefaultMaxWaitTime + PollInterval + 1000)
    /\ []((wf.pc = "thrown" /\ wf.message = TimeoutMessage) =>
             /\ wf.elapsed >= DefaultMaxWaitTime
             /\ wf.last.status \notin {"SUCCEEDED", "FAILED", "ABORTED"})
    /\ Polling ~> Ended

\* The run was still RUNNING at the last poll and the call has thrown the
\* timeout error.
C14_Witness ==
    /\ wf.pc = "thrown" /\ wf.message = TimeoutMessage
    /\ wf.last.status = "RUNNING"
    /\ wf.elapsed >= DefaultMaxWaitTime

\* C15 (SpecWorkflow): when startApifyTask, waitForRunCompletion or
\* readApifyItems throws, POST /api/ingest answers 500 with ok = false and the
\* error's message, without calling storeInSupabase; the table is as it was
\* when the request came in; and storeInSupabase only ever starts from items
\* that executeApifyWorkflow returned.
C15_ApifyFailsFast ==
    [][/\ pc["i1"] = "workflow" =>
             /\ records' = records
             /\ pc'["i1"] \in {"workflow", "store_check", "done"}
       /\ (pc["i1"] = "workflow" /\ wf.pc = "thrown" /\ wf' # wf) =>
             /\ pc'["i1"] = "done"
             /\ resp'["i1"].status = 500 /\ ~resp'["i1"].ok
             /\ resp'["i1"].error = wf.message
       /\ (pc["i1"] = "workflow" /\ pc'["i1"] # "workflow" /\ wf.pc # "thrown") =>
             wf.pc = "items"]_vars

\* The run timed out and POST /api/ingest has answered 500 with the timeout
\* error; the analyzed record is in the table as before.
C15_Witness ==
    /\ pc["i1"] = "done" /\ resp["i1"].status = 500
    /\ resp["i1"].error = TimeoutMessage
    /\ records = {SeedRow}

----------------------------------------------------------------------------
(* The health page. *)

\* select('*', { count: 'exact', head: true }) on `records`, with no filter:
\* the number of rows of the table.
HealthCount(table) == Cardinality(table)

\* The number the page shows under "Total analyzed records": count ?? 0.
TotalAnalyzedRecords == HealthCount(records)

\* The rows with analyzed_at IS NOT NULL.
AnalyzedRows(table) == {r \in table : r.analyzed_at # 0}

\* C16: in every state of the table, the number the health page shows as
\* "Total analyzed records" is the number of records whose analyzed_at is not
\* null.
C16_TotalIsAnalyzedCount == TotalAnalyzedRecords = Cardinality(AnalyzedRows(records))

----------------------------------------------------------------------------
(* GET /api/analyze, on tables of up to MaxTable records.  The table is the *)
(* one left by a POST /api/ingest of n items that have neither id, url nor  *)
(* uniqueId; the single-record route analyzes some of its records.          *)

\* getUnanalyzedRecords(100) in GET /api/analyze.
CountLimit == 100

MaxTable == 101

TableSizes == {0, 1, CountLimit - 1, CountLimit, MaxTable}

IdlessItems(n) == [i \in 1..n |-> [id |-> "", url |-> "", uniqueId |-> "", text |-> <<"x">>]]

InitCount ==
    /\ \E n \in TableSizes :
          /\ records = InsertedRows(mapApifyItemsToRecords(IdlessItems(n), 0), 0, 1)
          /\ nextId = n
          /\ genCount = n
    /\ now = 2
    /\ Quiet

\* GET /api/analyze: allUnanalyzed.length, or the catch.
CountGet(p) ==
    /\ FreeSlot(p)
    /\ route' = [route EXCEPT ![p] = "count"]
    /\ \E error \in BOOLEAN :
          IF error
          THEN Respond(p, Resp(500, FALSE))
          ELSE Respond(p, [Resp(200, TRUE) EXCEPT
                              !.unanalyzedCount = SelectionLength(records, CountLimit)])
    /\ UNCHANGED <<records, now, nextId, oa>>
    /\ UNCHANGED IngestVars

NextCount ==
    \/ CountGet("a1")
    \/ SingleStart("a1")
    \/ AnalyzeCall("a1")
    \/ AnalyzeUpdate("a1")
    \/ Finish("a1")

SpecCount == InitCount /\ [][NextCount]_vars

\* GET /api/analyze answers ok in this step.
CountAnswered(p) == pc[p] = "idle" /\ pc'[p] = "done" /\ route'[p] = "count" /\ resp'[p].ok

\* C17: the unanalyzedCount that GET /api/analyze returns is the number of
\* rows of the table whose analyzed_at is null, whatever the size of the table.
C17_CountIsUnanalyzed ==
    [][\A p \in Slots :
          CountAnswered(p) => resp'[p].unanalyzedCount = Cardinality(Candidates(records))]_vars

----------------------------------------------------------------------------
(* POST /api/analyze with its limit parameter observed: the check of the    *)
(* parameter and the selection of the batch are two steps, on the table     *)
(* left by one ingestion of two items.                                      *)

\* The handler up to its first await: the parameter is parsed and checked.
LimitReceive(p) ==
    /\ FreeSlot(p)
    /\ route' = [route EXCEPT ![p] = "batch"]
    /\ \E param \in LimitParams :
          /\ limitParam' = [limitParam EXCEPT ![p] = param]
          /\ IF LimitRejected(LimitOf(param))
             THEN Respond(p, BadLimit)
             ELSE /\ pc' = [pc EXCEPT ![p] = "select"]
                  /\ UNCHANGED <<resp, nitems, rows>>
                  /\ UNCHANGED AnalyzeLocals
    /\ UNCHANGED <<records, now, nextId, genCount, input, phase, snap, oa, wf, request>>

\* await getUnanalyzedRecords(limit)
LimitSelect(p) ==
    /\ pc[p] = "select"
    /\ SelectBatch(p, LimitOf(limitParam[p]))
    /\ UNCHANGED <<records, now, nextId, route, oa>>
    /\ UNCHANGED IngestVars

NextLimit ==
    \/ LimitReceive("a1")
    \/ LimitSelect("a1")
    \/ AnalyzeCall("a1")
    \/ AnalyzeUpdate("a1")
    \/ Finish("a1")

SpecLimit == InitRun /\ [][NextLimit]_vars

\* The text is a decimal integer, blanks around it aside.
IsInteger(v) == Trim(v) # <<>> /\ \A i \in DOMAIN Trim(v) : IsDigit(Trim(v)[i])

\* The parameter is absent or empty, or it is an integer in 1..50.
LimitAcceptable(param) ==
    \/ ~param.present
    \/ param.value = <<>>
    \/ IsInteger(param.value) /\ ParseInt(Trim(param.value)) \in 1..MaxLimit

\* C18: a POST /api/analyze whose limit is not an integer in 1..50 is answered
\* 400: it never gets to read the datastore, to call the completion API or
\* to update a record.
C18_BadLimitIs400 ==
    \A p \in Slots :
       (route[p] = "batch" /\ ~LimitAcceptable(limitParam[p]))
          => (pc[p] = "done" /\ resp[p] = BadLimit)

----------------------------------------------------------------------------
(* POST /api/analyze with its limit observed, while POST /api/ingest adds   *)
(* records: the tables hold records of different ages.                      *)

NextSelect ==
    \/ IngestStart("i1")
    \/ StoreCheck("i1")
    \/ StoreInsert("i1")
    \/ LimitReceive("a1")
    \/ LimitSelect("a1")
    \/ AnalyzeCall("a1")
    \/ AnalyzeUpdate("a1")
    \/ \E p \in {"i1", "a1"} : Finish(p)

SpecSelect == Init /\ [][NextSelect]_vars

BatchIds(b) == {b[i].id : i \in DOMAIN b}

CreatedAt(table, id) == (CHOOSE r \in table : r.id = id).created_at

\* No unanalyzed record of the table that is older than the record `id` is
\* missing from the batch b.
NoOlderLeftOut(table, b, id) ==
    \A r \in Candidates(table) :
       r.created_at < CreatedAt(table, id) => r.id \in BatchIds(b)

\* The step in which POST /api/analyze of slot p selects its batch.
Selects(p) == pc[p] = "select" /\ pc'[p] \in {"analyze", "done"} /\ resp'[p].status # 500

\* The batch is the n oldest unanalyzed records, all of them when fewer exist.
SelectedOldest(p, n) ==
    /\ Len(batch'[p]) = Min(n, Cardinality(Candidates(records)))
    /\ BatchIds(batch'[p]) \subseteq {r.id : r \in Candidates(records)}
    /\ \A i \in DOMAIN batch'[p] : NoOlderLeftOut(records, batch'[p], batch'[p][i].id)

\* The step in which analyzeContent is called on the current record of slot p.
CallsAnalyze(p) == pc[p] = "analyze" /\ route[p] = "batch" /\ Moves(p)

\* After this step slot p is in a run of POST /api/analyze, or has answered it.
InRun(p) == route'[p] = "batch" /\ (pc'[p] # "done" \/ resp'[p].status = 200)

\* The run stays within its n records.
WithinLimit(p, n) ==
    /\ Len(batch'[p]) <= n
    /\ idx'[p] <= n
    /\ results'[p] + errors'[p] <= n
    /\ resp'[p].analyzed + resp'[p].failed <= n

\* C19: POST /api/analyze?limit=n selects the n oldest unanalyzed records by
\* created_at (all of them when fewer than n exist); the run never analyzes
\* more than n records, and it never analyzes a record while an older
\* unanalyzed record is left out of its batch.
C19_OldestFirst ==
    [][\A p \in Slots :
          LET n == LimitOf(limitParam'[p])
          IN  /\ (Selects(p) => SelectedOldest(p, n))
              /\ (InRun(p) => WithinLimit(p, n))
              /\ (CallsAnalyze(p) => NoOlderLeftOut(records, batch[p], batch[p][idx[p]].id))]_vars

\* A run with limit 1 analyzed the older of two unanalyzed records and left
\* the newer one unanalyzed.
C19_Witness ==
    /\ pc["a1"] = "done" /\ route["a1"] = "batch"
    /\ LimitOf(limitParam["a1"]) = 1
    /\ resp["a1"].analyzed = 1
    /\ \E r, q \in records :
          r.created_at < q.created_at /\ r.analyzed_at # 0 /\ q.analyzed_at = 0

----------------------------------------------------------------------------
(* storedCount *)

\* POST /api/ingest of slot p has answered ok.
IngestAnswered(p) == pc[p] = "done" /\ route[p] = "ingest" /\ resp[p].ok

\* The table when the ingestion that is being served began: the first one
\* began on the empty table.
TableBefore == IF phase = 2 THEN snap ELSE {}

\* C20 (SpecReingest): with no other writer running, the storedCount that POST
\* /api/ingest returns is the number of rows of the table after the ingestion
\* minus the number before it, and it is at most itemsCount.
C20_StoredCountIsInserted ==
    IngestAnswered("i1") =>
        /\ resp["i1"].storedCount = Cardinality(records) - Cardinality(TableBefore)
        /\ resp["i1"].storedCount <= resp["i1"].itemsCount

\* An ingestion of two items stored one of them.
C20_Witness ==
    /\ IngestAnswered("i1")
    /\ resp["i1"].itemsCount = 2
    /\ resp["i1"].storedCount = 1
    /\ Cardinality(records) = Cardinality(TableBefore) + 1

----------------------------------------------------------------------------
(* The time waited before a retry. *)

\* The wait of analyzeContent ends in this step: the next request is a retry.
WakesForRetry == oa.pc = "wait" /\ oa'.pc = "fetch"

\* The time that passed since the last request, after this step.
Waited == oa'.gap - oa.gap

\* The README's fallback: 1 s, 2 s and 4 s before retries 1, 2 and 3.
FallbackSeconds(retry) == CASE retry = 1 -> 1 [] retry = 2 -> 2 [] retry = 3 -> 4 [] OTHER -> NaN

\* A request is retried at once, without a wait.
RetriesAtOnce == oa.pc = "fetch" /\ oa'.pc = "fetch" /\ oa'.attempt = oa.attempt + 1

----------------------------------------------------------------------------
(* POST /api/records/:id *)

\* POST /api/records/:id of slot p is received in this step.
Arrives(p) == pc[p] = "idle" /\ route'[p] = "single"

\* The handler of slot p answers with this status in this step and leaves
\* the table as it is.
AnswersUnchanged(p, status) ==
    pc'[p] = "done" /\ resp'[p].status = status /\ ~resp'[p].ok /\ records' = records

\* analyzeContent threw in the single-record handler of slot p.
SingleAnalysisFails(p) == route[p] = "single" /\ pc[p] = "analyze" /\ pc'[p] = "done"

\* C22 (Spec): POST /api/records/:id answers 400 when the action is not
\* analyze and 404 when no record has the id, and in both cases goes no
\* further and changes no record; it goes on to analyzeContent only with
\* action=analyze and the record of that id; when analyzeContent fails it
\* answers 500 and the table is unchanged.
C22_SingleAnalyze ==
    [][\A p \in Slots :
          LET q == request'[p]
          IN  /\ ((Arrives(p) /\ q.action # "analyze") => AnswersUnchanged(p, 400))
              /\ ((Arrives(p) /\ q.action = "analyze" /\ ~HasRow(records, q.id))
                     => AnswersUnchanged(p, 404))
              /\ ((Arrives(p) /\ pc'[p] = "analyze")
                     => /\ q.action = "analyze"
                        /\ HasRow(records, q.id)
                        /\ batch'[p] = <<Fetched(CHOOSE r \in records : r.id = q.id)>>
                        /\ records' = records)
              /\ (SingleAnalysisFails(p) => AnswersUnchanged(p, 500))]_vars

\* A request with another action was answered 400 while the record exists and
\* is unanalyzed.
C22_Witness ==
    /\ pc["a1"] = "done" /\ route["a1"] = "single"
    /\ request["a1"].action = "delete"
    /\ resp["a1"].status = 400
    /\ \E r \in records : r.id = request["a1"].id /\ r.analyzed_at = 0

----------------------------------------------------------------------------
(* Two requests to the analyze routes in flight at the same time, on the   *)
(* table that one ingestion of two items leaves.                           *)

NextOverlap ==
    \E p \in Analyzers :
        \/ BatchStart(p)
        \/ SingleStart(p)
        \/ AnalyzeCall(p)
        \/ AnalyzeUpdate(p)
        \/ Finish(p)

SpecOverlap == InitRun /\ [][NextOverlap]_vars

\* The record the handler of slot p is working on.
Current(p) == batch[p][idx[p]]

\* analyzeContent has returned an analysis of its current record to slot p.
HasAnalysisOf(p, id) == pc[p] = "update" /\ Current(p).id = id

\* Slot p writes the analysis of its current record in this step.
WritesAnalysis(p) ==
    /\ pc[p] = "update"
    /\ now' = now + 1
    /\ \E r \in records' : r.id = Current(p).id /\ r.analyzed_at = now

\* The record was unanalyzed when slot p read it and another request has
\* written its analysis since.
AnalyzedMeanwhile(p) ==
    /\ Current(p).analyzed_at = 0
    /\ \E r \in records : r.id = Current(p).id /\ r.analyzed_at # 0

\* C23 (SpecOverlap): when two requests to the analyze routes overlap, no
\* record is sent to the completion API by both and no record's analysis is
\* written by both.
C23_NotAnalyzedTwice ==
    [][/\ \A id \in RowIds : ~(HasAnalysisOf("a1", id) /\ HasAnalysisOf("a2", id))'
       /\ \A p \in Analyzers : WritesAnalysis(p) => ~AnalyzedMeanwhile(p)]_vars

----------------------------------------------------------------------------
(* POST /api/analyze invoked again and again, one run at a time, with a     *)
(* datastore that answers and a completion API that analyzes every content  *)
(* it is sent.  The table is the one two ingestions of one item each leave; *)
(* an item's text may be a single blank, which the filter of                *)
(* mapApifyItemsToRecords (content.length > 0) lets through and the entry   *)
(* check of analyzeContent (content.trim().length === 0) refuses.  The      *)
(* clock of the model leaves room for one analysis, so at most one of the   *)
(* two records has text.                                                    *)

RepeatTexts == {<<" ">>, <<"x">>}

TextItem(t) == [id |-> "", url |-> "", uniqueId |-> "", text |-> t]

InitRepeat ==
    /\ \E older, newer \in RepeatTexts :
          /\ ContentIsEmpty(older) \/ ContentIsEmpty(newer)
          /\ records = InsertedRows(mapApifyItemsToRecords(<<TextItem(older)>>, 0), 0, 1)
                       \cup InsertedRows(mapApifyItemsToRecords(<<TextItem(newer)>>, 1), 1, 2)
    /\ now = 3
    /\ nextId = 2
    /\ genCount = 2
    /\ Quiet

RepeatReceive == LimitReceive("a1")

\* getUnanalyzedRecords answers.
RepeatSelect == LimitSelect("a1") /\ resp'["a1"].status # 500

\* analyzeContent returns an analysis unless its entry check throws.
RepeatCall ==
    /\ AnalyzeCall("a1")
    /\ pc'["a1"] = "update" \/ ContentIsEmpty(batch["a1"][idx["a1"]].content)

\* updateRecordAnalysis answers.
RepeatUpdate == AnalyzeUpdate("a1") /\ now' = now + 1

RepeatFinish == Finish("a1")

NextRepeat == RepeatReceive \/ RepeatSelect \/ RepeatCall \/ RepeatUpdate \/ RepeatFinish

\* Every request is served to its end, and the next one is sent.
SpecRepeat ==
    /\ InitRepeat /\ [][NextRepeat]_vars
    /\ WF_vars(RepeatReceive) /\ WF_vars(RepeatSelect) /\ WF_vars(RepeatCall)
    /\ WF_vars(RepeatUpdate) /\ WF_vars(RepeatFinish)

\* Every run is POST /api/analyze?limit=1.
LimitIsOne == route["a1"] = "batch" => limitParam["a1"] = [present |-> TRUE, value |-> <<"1">>]

\* The record `id` is unanalyzed and its analysis would succeed.
Pending(id) ==
    \E r \in records : r.id = id /\ r.analyzed_at = 0 /\ ~ContentIsEmpty(r.content)

\* C24 (SpecRepeat): when POST /api/analyze is invoked again and again with
\* the same limit, every unanalyzed record whose analysis would succeed is
\* eventually analyzed, also when older records fail on every attempt.
C24_EveryRecordAnalyzed ==
    []LimitIsOne => \A id \in RowIds : Pending(id) ~> ~Pending(id)

----------------------------------------------------------------------------
(* analysis and analyzed_at *)

\* analysis is present if and only if analyzed_at is.
BothOrNeither(r) == (r.analysis # NullAnalysis) <=> (r.analyzed_at # 0)

\* The row r of the table is the row q after this step, with another analysis
\* or analyzed_at.
Rewritten(r, q) ==
    r.id = q.id /\ (r.analysis # q.analysis \/ r.analyzed_at # q.analyzed_at)

\* The step is updateRecordAnalysis of some handler on the row r, and q is
\* what it wrote.
ByUpdateRecordAnalysis(r, q) ==
    \E p \in Slots :
       /\ pc[p] = "update"
       /\ batch[p][idx[p]].id = r.id
       /\ q = [r EXCEPT !.analysis = analysis[p], !.analyzed_at = now]
       /\ analysis[p] # NullAnalysis

\* C25 (Spec): in every state of the table every record has an analysis if
\* and only if it has an analyzed_at; the two fields change only together,
\* in a write of updateRecordAnalysis.
C25_AnalysisIffAnalyzedAt ==
    /\ [](\A r \in records : BothOrNeither(r))
    /\ [][\A r \in records, q \in records' :
             Rewritten(r, q) => ByUpdateRecordAnalysis(r, q)]_vars

\* The table holds an analyzed record next to one that is not.
C25_Witness ==
    \E r, q \in records :
       /\ r.analyzed_at # 0 /\ r.analysis # NullAnalysis
       /\ q.analyzed_at = 0 /\ q.analysis = NullAnalysis

----------------------------------------------------------------------------
(* storeInSupabase: all rows or none. *)

\* POST /api/ingest of slot p answers in this step.
IngestAnswers(p) == route'[p] = "ingest" /\ pc[p] # "done" /\ pc'[p] = "done"

\* The rows this step added to the table.
Added == records' \ records

\* The step is the INSERT of the handler of slot p: all its new rows are
\* added and counted.
InsertsAll(p) ==
    /\ pc[p] = "store_insert"
    /\ IngestAnswers(p) /\ resp'[p].ok
    /\ Cardinality(Added) = Len(rows[p])
    /\ {r.external_id : r \in Added} = {rows[p][i].external_id : i \in DOMAIN rows[p]}
    /\ resp'[p].storedCount = Cardinality(Added)

\* C26 (SpecIngest): the rows of one storeInSupabase call are inserted all or
\* none.  A request that fails answers 500 with ok = false, reports no stored
\* row and has added no row; the table gets rows only in the one step in which
\* a request inserts all its new rows and reports their number.
C26_AllOrNone ==
    [][/\ \A p \in Ingesters :
             (IngestAnswers(p) /\ ~resp'[p].ok) =>
                 /\ resp'[p].status = 500
                 /\ resp'[p].storedCount = 0
                 /\ records' = records
       /\ \A p \in Ingesters :
             (IngestAnswers(p) /\ resp'[p].ok) =>
                 resp'[p].storedCount = Cardinality(Added)
       /\ (records' # records) => \E p \in Ingesters : InsertsAll(p)]_vars

\* An INSERT of two rows with one external_id failed and the table is empty.
C26_Witness ==
    /\ records = {}
    /\ \E p \in Ingesters :
          pc[p] = "done" /\ resp[p].status = 500 /\ resp[p].error = DuplicateKey

----------------------------------------------------------------------------
(* A record deleted while its analysis is in flight. *)

Failed(p) == IF pc[p] = "done" THEN resp[p].failed ELSE errors[p]

\* Slot p runs updateRecordAnalysis in this step, on a record that has been
\* deleted since the handler read it.
UpdatesDeleted(p) ==
    pc[p] = "update" /\ Moves(p) /\ ~HasRow(records, batch[p][idx[p]].id)

\* The handler of slot p reports the analysis of its record as failed.
ReportsFailure(p) ==
    IF route[p] = "batch"
    THEN Failed(p)' = Failed(p) + 1 /\ Analyzed(p)' = Analyzed(p)
    ELSE pc'[p] = "done" /\ resp'[p].status = 500 /\ ~resp'[p].ok

\* C27 (Spec): when a record is deleted between its read and
\* updateRecordAnalysis, the update creates no row and the analysis is
\* reported as failed (one more error of the batch run, 500 from the
\* single-record run); a row that is not in the table never comes back: new
\* rows have new ids.
C27_DeletedStaysDeleted ==
    [][/\ \A p \in Slots : UpdatesDeleted(p) => (records' = records /\ ReportsFailure(p))
       /\ \A q \in records' : ~HasRow(records, q.id) => q.id > nextId]_vars

\* analyzeContent has returned the analysis of a record of a batch run, and
\* the record has been deleted since the run read it.
C27_Witness ==
    /\ route["a1"] = "batch" /\ pc["a1"] = "update"
    /\ analysis["a1"] # NullAnalysis
    /\ ~HasRow(records, batch["a1"][idx["a1"]].id)

----------------------------------------------------------------------------
(* The order of the ingest workflow. *)

\* waitForRunCompletion starts: startApifyTask has returned.
BeginsPolling == wf.pc \notin {"poll", "wait"} /\ wf'.pc = "poll"

\* One GET of the run is sent and answered in this step.
SendsPoll == wf.pc = "poll" /\ wf' # wf /\ wf'.message # TimeoutMessage

\* readApifyItems is called in this step.
ReadsDataset == wf.read = "" /\ wf'.read # ""

\* storeInSupabase is called by the handler of slot p in this step.
CallsStore(p) ==
    /\ pc[p] = "workflow"
    /\ pc'[p] = "store_check" \/ (pc'[p] = "done" /\ resp'[p].ok)

\* C28 (SpecWorkflow): in POST /api/ingest the run that is polled is the run
\* this request started, the dataset that is read is the defaultDatasetId a
\* poll of that run reported together with SUCCEEDED, and storeInSupabase is
\* called only after the read of that dataset returned.
C28_WorkflowOrder ==
    [][/\ BeginsPolling =>
             (wf.pc = "started" /\ StartOk(wf.res) /\ wf'.runId = wf.res.runId /\ wf'.runId # "")
       /\ SendsPoll => wf'.polled = wf.runId
       /\ ReadsDataset =>
             /\ wf.pc = "returned"
             /\ wf.polled = wf.runId /\ wf.runId # ""
             /\ wf.last.ok /\ wf.last.status = "SUCCEEDED"
             /\ wf'.read = wf.last.datasetId
       /\ \A p \in Ingesters :
             CallsStore(p) => (wf.pc = "items" /\ wf.read = wf.last.datasetId /\ wf.read # "")]_vars

\* The dataset of the run this request started has been read, after a wait.
C28_Witness ==
    /\ pc["i1"] = "workflow" /\ wf.pc = "items"
    /\ wf.runId = "r1" /\ wf.polled = "r1" /\ wf.read = "d"
    /\ wf.elapsed >= PollInterval

----------------------------------------------------------------------------
(* startApifyTask *)

\* The response startApifyTask ends with.
LastStartResponse(w) == IF w.requests = 2 THEN w.second ELSE w.first

\* C30 (SpecPoll): startApifyTask sends its second request, to the actors
\* endpoint, if and only if the first, to the actor-tasks endpoint, answered
\* 404; it sends at most 2 requests; it returns a run id only when its last
\* response was OK and carried data.id, and the id is that one.
C30_StartTriesBoth ==
    [][/\ wf'.requests \in 0..2
       /\ (wf'.requests >= 1) <=> (wf'.first # NoStart)
       /\ (wf'.requests = 2) <=> (wf'.second # NoStart)
       /\ (wf'.requests = 2) <=> (wf'.first.kind = "http" /\ wf'.first.status = 404)
       /\ (wf.runId = "" /\ wf'.runId # "") =>
             /\ wf.pc = "started"
             /\ StartOk(LastStartResponse(wf))
             /\ LastStartResponse(wf).runId = wf'.runId]_vars

\* The actor-tasks endpoint answered 404 and the actors endpoint answered OK
\* with a run id.
C30_Witness ==
    /\ wf.pc = "started" /\ wf.requests = 2
    /\ wf.first.status = 404
    /\ StartOk(wf.second) /\ wf.second.runId = "r1"

----------------------------------------------------------------------------
(* DELETE /api/records/:id with its response observed, one request at a    *)
(* time, on the table that one ingestion of two items leaves.  The id of    *)
(* the request is any text of the URL; the column is id UUID, and the       *)
(* datastore refuses a comparison of it with a text that is not a uuid.     *)

\* An id of the URL that is not a uuid.
NotUuid == 0

DeleteIds == RowIds \cup {NotUuid}

IsUuid(id) == id # NotUuid

InvalidUuid == "invalid input syntax for type uuid"

FetchFailed == "fetch failed"

\* throw new Error(`Failed to delete record: ${error.message}`)
DeleteFailure(message) == "Failed to delete record: " \o message

\* deleteRecord(id): what the datastore answers; "" is no error.
DeleteErrors(id) == IF IsUuid(id) THEN {"", FetchFailed} ELSE {InvalidUuid, FetchFailed}

\* DELETE /api/records/:id, the whole handler.
DeleteRequest(p) ==
    /\ FreeSlot(p)
    /\ route' = [route EXCEPT ![p] = "delete"]
    /\ \E id \in DeleteIds :
          /\ request' = [request EXCEPT ![p] = [id |-> id, action |-> ""]]
          /\ \E error \in DeleteErrors(id) :
                IF error # ""
                THEN /\ Respond(p, [Resp(500, FALSE) EXCEPT !.error = DeleteFailure(error)])
                     /\ UNCHANGED records
                ELSE /\ Respond(p, Resp(200, TRUE))
                     /\ records' = TableAfterDelete(records, id)
    /\ UNCHANGED <<now, nextId, genCount, input, phase, snap, oa, wf, limitParam>>

NextDelete ==
    \/ DeleteRequest("a1")
    \/ SingleStart("a1")
    \/ AnalyzeCall("a1")
    \/ AnalyzeUpdate("a1")
    \/ Finish("a1")

SpecDelete == InitRun /\ [][NextDelete]_vars

\* DELETE /api/records/:id of slot p is served in this step.
DeleteServed(p) == pc[p] = "idle" /\ route'[p] = "delete"

\* The table without the record `id`, every other record as it was.
Without(table, id) == {r \in table : r.id # id}

\* C29 (SpecDelete), as the specification states it: whenever the datastore
\* is reached, DELETE /api/records/:id answers ok = true and the table is the
\* one before without the record of that id, unchanged when there is none.
C29_DeleteAnswersOk ==
    [][\A p \in Slots :
          (DeleteServed(p) /\ resp'[p].error # DeleteFailure(FetchFailed)) =>
              /\ resp'[p].ok
              /\ records' = Without(records, request'[p].id)]_vars

\* C29 (SpecDelete), amended: the answer is ok = true when the id is a uuid
\* and the datastore is reached, with the table the one before without the
\* record of that id (unchanged when there is none); an id that is not a
\* uuid is answered 500 with ok = false, and the table is unchanged.
C29_DeleteExactly ==
    [][\A p \in Slots :
          LET id == request'[p].id
          IN  /\ (DeleteServed(p) /\ resp'[p].error # DeleteFailure(FetchFailed) /\ IsUuid(id)) =>
                     /\ resp'[p].ok /\ resp'[p].status = 200
                     /\ records' = Without(records, id)
              /\ (DeleteServed(p) /\ ~IsUuid(id)) =>
                     /\ ~resp'[p].ok /\ resp'[p].status = 500
                     /\ records' = records
              /\ (DeleteServed(p) /\ ~resp'[p].ok) => records' = records]_vars

\* A delete of an id that no record has was answered ok, next to an analyzed
\* record that is still in the table.
C29_Witness ==
    /\ pc["a1"] = "done" /\ route["a1"] = "delete" /\ resp["a1"].ok
    /\ IsUuid(request["a1"].id)
    /\ ~HasRow(records, request["a1"].id)
    /\ \E r \in records : r.analyzed_at # 0

====
